---- MODULE Spec2Model ----
(***************************************************************************)
(* Supply-chain graph RAG demo: the ingestion script (src/load_data.py)    *)
(* and the chat application (src/app.py), modelled as state machines over  *)
(* one graph store.                                                        *)
(*                                                                         *)
(* The graph store is a set of nodes and a set of edges.  A node carries   *)
(* the store's own identity (nid), its label, and the properties the       *)
(* program reads back: id, name, description, location and                 *)
(* description_embedding.  The scalar properties the program writes but    *)
(* never reads (price, category, specialization, capacity, duration) are   *)
(* not carried.  An absent property is Null (NullEmb for the embedding).   *)
(* An edge is (type, src nid, dst nid, k): k numbers the parallel edges of *)
(* one type between one pair of nodes, which a store that was filled by    *)
(* something else than MERGE may hold.                                     *)
(***************************************************************************)
EXTENDS Integers, Sequences, FiniteSets, TLC

VARIABLES
    store,        \* the graph database: [nodes, edges, index]
    fixtures,     \* load_data.py: the five JSON fixture lists
    pc,           \* load_data.py: position of the ingestion process
    idx,          \* load_data.py: index of the next record of the current loop
    sub,          \* load_data.py: next query of create_relationships' loop body
    ldriver,      \* load_data.py: the module-level driver
    lsession,     \* load_data.py: TRUE while a `with driver.session()` is open
    runs,         \* number of ingestion processes started
    completed,    \* number of load_all_data calls that returned
    up,           \* TRUE while the store answers queries
    messages,     \* app.py: st.session_state.messages
    cpc,          \* app.py: position of the script run
    env,          \* app.py: which environment variables are set
    modelLoaded,  \* app.py: TRUE when embedding_model is bound
    configured,   \* app.py: the api_key genai was last configured with
    asked,        \* number of questions submitted in the session
    question,     \* app.py: prompt
    context,      \* app.py: context
    response,     \* app.py: response
    rdriver,      \* app.py: the local driver of get_relevant_context
    connectAuth,  \* the credentials of the connection this script run made to the store
    raised,       \* the step of get_relevant_context that raised in this script run
    genCall       \* the call of generate_gemini_response this script run made

loadVars == <<store, fixtures, pc, idx, sub, ldriver, lsession, runs, completed, up>>

chatVars == <<messages, cpc, env, modelLoaded, configured, asked, question, context,
              response, rdriver, connectAuth, raised, genCall>>

vars == <<loadVars, chatVars>>

----------------------------------------------------------------------------
(* Bounds of the model *)

MaxRuns == 2
MaxRels == 2
MaxProducts == 4
MaxQuestions == 2

Null == "null"
NullEmb == <<>>
NoDist == 0 - 1

----------------------------------------------------------------------------
(* Sequences and sets *)

SeqsUpTo(S, n) == UNION {[1..k -> S] : k \in 0..n}

Max(S) == CHOOSE x \in S : \A y \in S : y <= x

----------------------------------------------------------------------------
(* Embedding service: SentenceTransformer("all-MiniLM-L6-v2").encode.      *)
(* A deterministic map from text to a fixed-length vector; the texts of    *)
(* the model and their vectors (scaled to integers) are tabulated.         *)

Encode(text) ==
    CASE text = "t1" -> <<2, 0>>
      [] text = "t2" -> <<1, 1>>
      [] text = "t3" -> <<0, 2>>
      [] OTHER -> <<1, 0>>

----------------------------------------------------------------------------
(* Graph store: Cypher MERGE / MATCH semantics                             *)

EmptyStore == [nodes |-> {}, edges |-> {}, index |-> FALSE]

Node(nid, label, id, name, description, location, embedding) ==
    [nid |-> nid, label |-> label, id |-> id, name |-> name,
     description |-> description, location |-> location, embedding |-> embedding]

Edge(type, src, dst, k, distance) ==
    [type |-> type, src |-> src, dst |-> dst, k |-> k, distance |-> distance]

\* Match with the id test dropped: every node of the label
MatchLabelOnly(s, label, id) == {n \in s.nodes : n.label = label}

\* MATCH (n:Label {id: $id})
Match(s, label, id) == {n \in s.nodes : n.label = label /\ n.id = id}

FreshNid(s) == IF s.nodes = {} THEN 1 ELSE Max({n.nid : n \in s.nodes}) + 1

\* CREATE VECTOR INDEX ... IF NOT EXISTS
EnsureIndex(s) == [s EXCEPT !.index = TRUE]

\* MERGE (n:Label {id: $id}) SET n.<props> = ...: every node the pattern
\* matches gets the properties; when none matches, one node is created.
MergeNode(s, label, id, name, description, location, embedding) ==
    LET hit == Match(s, label, id)
        set(n) == Node(n.nid, label, id, name, description, location, embedding)
    IN  IF hit = {}
        THEN [s EXCEPT !.nodes = @ \cup
                {Node(FreshNid(s), label, id, name, description, location, embedding)}]
        ELSE [s EXCEPT !.nodes = (@ \ hit) \cup {set(n) : n \in hit}]

Between(s, type, a, b) == {e \in s.edges : e.type = type /\ e.src = a /\ e.dst = b}

\* MergeEdge with CREATE in place of MERGE: every matched pair gets a new edge
CreateEdge(s, type, la, x, lb, y) ==
    LET rows == Match(s, la, x) \X Match(s, lb, y)
        made == {Edge(type, r[1].nid, r[2].nid,
                      Cardinality(Between(s, type, r[1].nid, r[2].nid)) + 1, NoDist) :
                     r \in rows}
    IN  [s EXCEPT !.edges = @ \cup made]

\* MATCH (a:LA {id: $x}) MATCH (b:LB {id: $y}) MERGE (a)-[:TYPE]->(b)
\* One row per matched pair of nodes; a pair with no edge of the type gets
\* one.  When either MATCH finds nothing there is no row and nothing happens.
MergeEdge(s, type, la, x, lb, y) ==
    LET rows == Match(s, la, x) \X Match(s, lb, y)
        made == {Edge(type, r[1].nid, r[2].nid, 1, NoDist) :
                     r \in {q \in rows : Between(s, type, q[1].nid, q[2].nid) = {}}}
    IN  [s EXCEPT !.edges = @ \cup made]

\* ... MERGE (w1)-[r:CONNECTED_TO]->(w2) SET r.distance = $distance:
\* SET applies to every edge the MERGE bound or created.
MergeRoute(s, from, to, distance) ==
    LET m == MergeEdge(s, "CONNECTED_TO", "Warehouse", from, "Warehouse", to)
        rows == Match(s, "Warehouse", from) \X Match(s, "Warehouse", to)
        bound == {e \in m.edges : e.type = "CONNECTED_TO" /\
                     \E r \in rows : e.src = r[1].nid /\ e.dst = r[2].nid}
    IN  [m EXCEPT !.edges = (@ \ bound) \cup {[e EXCEPT !.distance = distance] : e \in bound}]

NodesOf(s, label) == {n \in s.nodes : n.label = label}
EdgesOf(s, type) == {e \in s.edges : e.type = type}

Counts(s) == <<Cardinality(NodesOf(s, "Product")), Cardinality(NodesOf(s, "Supplier")),
               Cardinality(NodesOf(s, "Warehouse")), Cardinality(EdgesOf(s, "SUPPLIES")),
               Cardinality(EdgesOf(s, "STORED_AT")), Cardinality(EdgesOf(s, "CONNECTED_TO"))>>

----------------------------------------------------------------------------
(* src/app.py: the similarity query of get_relevant_context                *)

TopK == 3

Min(a, b) == IF a <= b THEN a ELSE b

RECURSIVE DotFrom(_, _, _)
DotFrom(a, b, i) == IF i > Len(a) THEN 0 ELSE a[i] * b[i] + DotFrom(a, b, i + 1)

\* reduce(s = 0, i in range(0, size(p.description_embedding)-1) |
\*        s + p.description_embedding[i] * $embedding[i])
Similarity(p, embedding) == DotFrom(p.embedding, embedding, 1)

\* MATCH (p:Product) WHERE p.description_embedding IS NOT NULL
Candidates(s) == {p \in NodesOf(s, "Product") : p.embedding # NullEmb}

\* ORDER BY similarity DESC.  The query has no second sort key: the order
\* of products of equal similarity is the database's choice, so the result is
\* the set of all the lists of ps that are in descending similarity.
RECURSIVE OrderBySimilarity(_, _)
OrderBySimilarity(ps, embedding) ==
    IF ps = {} THEN {<<>>}
    ELSE LET best == {p \in ps : \A q \in ps :
                         Similarity(p, embedding) >= Similarity(q, embedding)}
         IN  UNION {{<<p>> \o rest : rest \in OrderBySimilarity(ps \ {p}, embedding)} :
                        p \in best}

\* LIMIT n
Limit(rows, n) == SubSeq(rows, 1, Min(n, Len(rows)))

\* WITH p, similarity ORDER BY similarity DESC LIMIT 3: the possible results
TopProducts(s, embedding) ==
    {Limit(ranked, TopK) : ranked \in OrderBySimilarity(Candidates(s), embedding)}

\* (p)<-[:SUPPLIES]-(s:Supplier)
SuppliersOf(s, p) ==
    {n \in NodesOf(s, "Supplier") :
        \E e \in EdgesOf(s, "SUPPLIES") : e.src = n.nid /\ e.dst = p.nid}

\* (p)-[:STORED_AT]->(w:Warehouse)
WarehousesOf(s, p) ==
    {n \in NodesOf(s, "Warehouse") :
        \E e \in EdgesOf(s, "STORED_AT") : e.src = p.nid /\ e.dst = n.nid}

NullNode == Node(0, Null, Null, Null, Null, Null, NullEmb)

\* OPTIONAL MATCH: the matches, or one null when there is none
Optional(ns) == IF ns = {} THEN {NullNode} ELSE ns

\* The rows that reach RETURN: per ranked product, one binding of (p, s, w)
\* per pair of an optional supplier and an optional warehouse.  The ORDER BY
\* is before the two OPTIONAL MATCH clauses and nothing orders their rows:
\* the rows are a set.
ExpandRows(s, top) ==
    UNION {{[p |-> top[i], s |-> sup, w |-> wh] :
                sup \in Optional(SuppliersOf(s, top[i])),
                wh \in Optional(WarehousesOf(s, top[i]))} : i \in 1..Len(top)}

\* The lists an unordered set of values may come out as
RECURSIVE Orders(_)
Orders(xs) ==
    IF xs = {} THEN {<<>>}
    ELSE UNION {{<<x>> \o rest : rest \in Orders(xs \ {x})} : x \in xs}

\* The grouping keys of RETURN: its expressions that do not aggregate
GroupKeys(rows) == {<<r.p.name, r.p.description>> : r \in rows}

\* The result rows one group may give: each collect(DISTINCT ...) holds the
\* distinct maps of the group's rows, in an order the query does not fix.
Collected(rows, key) ==
    LET group == {r \in rows : <<r.p.name, r.p.description>> = key}
        sups == {[type |-> "SUPPLIES", name |-> r.s.name] : r \in group}
        whs == {[type |-> "STORED_AT", name |-> r.w.name, location |-> r.w.location] :
                   r \in group}
    IN  {[product_name |-> key[1], product_description |-> key[2],
          suppliers |-> su, warehouses |-> wh] : su \in Orders(sups), wh \in Orders(whs)}

RECURSIVE GroupLists(_, _)
GroupLists(rows, keys) ==
    IF keys = {} THEN {<<>>}
    ELSE UNION {{<<g>> \o rest : g \in Collected(rows, k),
                                 rest \in GroupLists(rows, keys \ {k})} : k \in keys}

\* RETURN p.name, p.description, collect(DISTINCT ...), collect(DISTINCT ...):
\* one result row per (p.name, p.description).  No ORDER BY follows the
\* aggregation, so the result rows come in an order that is the database's
\* choice: every order of the groups is a possible result.
Aggregate(rows) == GroupLists(rows, GroupKeys(rows))

\* session.run(<the similarity query>, embedding=question_embedding): the
\* results the database may give
SimilarityQuery(s, embedding) ==
    UNION {Aggregate(ExpandRows(s, top)) : top \in TopProducts(s, embedding)}

\* Python truth value of a property: None and "" are false
Truthy(v) == v # Null /\ v # ""

NoContext == << <<"No relevant context found.">> >>
ErrorContext == << <<"Error retrieving context.">> >>
NoResponse == "No response received from Gemini."
ErrorResponse == "Error generating response."

\* for m in maps: if m['name']: ...  (the maps the loop body acts on)
RECURSIVE Named(_)
Named(maps) ==
    IF maps = <<>> THEN <<>>
    ELSE IF Truthy(Head(maps).name) THEN <<Head(maps)>> \o Named(Tail(maps))
         ELSE Named(Tail(maps))

\* The lines of the records one after the other, as the loop appends them
RECURSIVE Flatten(_)
Flatten(ss) == IF ss = <<>> THEN <<>> ELSE Head(ss) \o Flatten(Tail(ss))

\* The context lines of one record.  A line is the tuple of its fixed text
\* and its values; the context is the list of lines that "\n".join joins.
RecordLines(record) ==
    << <<"Product: ", record.product_name>>,
       <<"Description: ", record.product_description>> >>
    \o [i \in 1..Len(Named(record.suppliers)) |->
            <<"Supplied by: ", Named(record.suppliers)[i].name>>]
    \o [i \in 1..Len(Named(record.warehouses)) |->
            <<"Stored at: ", Named(record.warehouses)[i].name, " in ",
              Named(record.warehouses)[i].location>>]
    \o << <<"---">> >>

\* RenderContext without the fallback for an empty result
RenderContextNoFallback(result) ==
    Flatten([i \in 1..Len(result) |-> RecordLines(result[i])])

\* get_relevant_context: the formatting of the result
RenderContext(result) ==
    LET lines == Flatten([i \in 1..Len(result) |-> RecordLines(result[i])])
    IN  IF lines # <<>> THEN lines ELSE NoContext

----------------------------------------------------------------------------
(* src/load_data.py: the ingestion process                                 *)

\* load_products, the query of one product record
UpsertProduct(s, product) ==
    MergeNode(s, "Product", product.id, product.name, product.description, Null,
              Encode(product.description))

\* load_suppliers, the query of one supplier record
UpsertSupplier(s, supplier) ==
    MergeNode(s, "Supplier", supplier.id, supplier.name, Null, supplier.location, NullEmb)

\* load_warehouses, the query of one warehouse record
UpsertWarehouse(s, warehouse) ==
    MergeNode(s, "Warehouse", warehouse.id, warehouse.name, Null, warehouse.location, NullEmb)

\* load_transportation_routes, the query of one route record
ConnectWarehouses(s, route) == MergeRoute(s, route.from, route.to, route.distance)

\* create_relationships, first query of one relationship record
MergeSupplies(s, rel) ==
    MergeEdge(s, "SUPPLIES", "Supplier", rel.supplier_id, "Product", rel.product_id)

\* create_relationships, second query of one relationship record
MergeStoredAt(s, rel) ==
    MergeEdge(s, "STORED_AT", "Product", rel.product_id, "Warehouse", rel.warehouse_id)

\* A new process: the module body creates the driver and reads the fixtures,
\* then __main__ calls load_all_data.
StartIngestion ==
    /\ pc \in {"idle", "exited", "aborted"}
    /\ runs < MaxRuns
    /\ runs' = runs + 1
    /\ ldriver' = "open"
    /\ pc' = "index"
    /\ idx' = 1
    /\ sub' = 1
    /\ UNCHANGED <<chatVars, up, store, fixtures, lsession, completed>>

\* load_products: the session that ensures the vector index
CreateVectorIndex ==
    /\ pc = "index"
    /\ up
    /\ store' = EnsureIndex(store)
    /\ pc' = "products"
    /\ idx' = 1
    /\ UNCHANGED <<chatVars, up, fixtures, sub, ldriver, lsession, runs, completed>>

\* load_products: one iteration (encode, open a session, MERGE, close it)
LoadProduct ==
    /\ pc = "products"
    /\ up
    /\ idx <= Len(fixtures.products)
    /\ store' = UpsertProduct(store, fixtures.products[idx])
    /\ idx' = idx + 1
    /\ UNCHANGED <<chatVars, up, fixtures, pc, sub, ldriver, lsession, runs, completed>>

\* load_all_data with the route loading called right after the products
BeginRoutesEarly ==
    /\ pc = "products"
    /\ idx > Len(fixtures.products)
    /\ pc' = "routes"
    /\ idx' = 1
    /\ lsession' = TRUE
    /\ UNCHANGED <<chatVars, up, store, fixtures, sub, ldriver, runs, completed>>

\* load_products returns; load_suppliers opens its session
BeginSuppliers ==
    /\ pc = "products"
    /\ idx > Len(fixtures.products)
    /\ pc' = "suppliers"
    /\ idx' = 1
    /\ lsession' = TRUE
    /\ UNCHANGED <<chatVars, up, store, fixtures, sub, ldriver, runs, completed>>

LoadSupplier ==
    /\ pc = "suppliers"
    /\ up
    /\ idx <= Len(fixtures.suppliers)
    /\ store' = UpsertSupplier(store, fixtures.suppliers[idx])
    /\ idx' = idx + 1
    /\ UNCHANGED <<chatVars, up, fixtures, pc, sub, ldriver, lsession, runs, completed>>

\* load_suppliers closes its session and returns; load_warehouses opens its own
BeginWarehouses ==
    /\ pc = "suppliers"
    /\ idx > Len(fixtures.suppliers)
    /\ pc' = "warehouses"
    /\ idx' = 1
    /\ lsession' = TRUE
    /\ UNCHANGED <<chatVars, up, store, fixtures, sub, ldriver, runs, completed>>

LoadWarehouse ==
    /\ pc = "warehouses"
    /\ up
    /\ idx <= Len(fixtures.warehouses)
    /\ store' = UpsertWarehouse(store, fixtures.warehouses[idx])
    /\ idx' = idx + 1
    /\ UNCHANGED <<chatVars, up, fixtures, pc, sub, ldriver, lsession, runs, completed>>

BeginRoutes ==
    /\ pc = "warehouses"
    /\ idx > Len(fixtures.warehouses)
    /\ pc' = "routes"
    /\ idx' = 1
    /\ lsession' = TRUE
    /\ UNCHANGED <<chatVars, up, store, fixtures, sub, ldriver, runs, completed>>

LoadRoute ==
    /\ pc = "routes"
    /\ up
    /\ idx <= Len(fixtures.routes)
    /\ store' = ConnectWarehouses(store, fixtures.routes[idx])
    /\ idx' = idx + 1
    /\ UNCHANGED <<chatVars, up, fixtures, pc, sub, ldriver, lsession, runs, completed>>

BeginRelationships ==
    /\ pc = "routes"
    /\ idx > Len(fixtures.routes)
    /\ pc' = "relationships"
    /\ idx' = 1
    /\ sub' = 1
    /\ lsession' = TRUE
    /\ UNCHANGED <<chatVars, up, store, fixtures, ldriver, runs, completed>>

\* create_relationships: the SUPPLIES query of record idx
CreateSupplies ==
    /\ pc = "relationships"
    /\ up
    /\ idx <= Len(fixtures.relationships)
    /\ sub = 1
    /\ store' = MergeSupplies(store, fixtures.relationships[idx])
    /\ sub' = 2
    /\ UNCHANGED <<chatVars, up, fixtures, pc, idx, ldriver, lsession, runs, completed>>

\* create_relationships: the STORED_AT query of record idx
CreateStoredAt ==
    /\ pc = "relationships"
    /\ up
    /\ idx <= Len(fixtures.relationships)
    /\ sub = 2
    /\ store' = MergeStoredAt(store, fixtures.relationships[idx])
    /\ sub' = 1
    /\ idx' = idx + 1
    /\ UNCHANGED <<chatVars, up, fixtures, pc, ldriver, lsession, runs, completed>>

\* create_relationships closes its session; load_all_data returns
FinishLoad ==
    /\ pc = "relationships"
    /\ idx > Len(fixtures.relationships)
    /\ pc' = "loaded"
    /\ lsession' = FALSE
    /\ completed' = completed + 1
    /\ UNCHANGED <<chatVars, up, store, fixtures, idx, sub, ldriver, runs>>

\* __main__: driver.close() after load_all_data returned
CloseDriver ==
    /\ pc = "loaded"
    /\ ldriver' = "closed"
    /\ pc' = "exited"
    /\ UNCHANGED <<chatVars, up, store, fixtures, idx, sub, lsession, runs, completed>>

\* session.run raises because the store does not answer: the `with` block
\* closes the session, nothing catches the exception, and the process ends
\* inside load_all_data; the statement after the call is never reached.
LoadRaises ==
    /\ ~up
    /\ \/ pc = "index"
       \/ pc = "products" /\ idx <= Len(fixtures.products)
       \/ pc = "suppliers" /\ idx <= Len(fixtures.suppliers)
       \/ pc = "warehouses" /\ idx <= Len(fixtures.warehouses)
       \/ pc = "routes" /\ idx <= Len(fixtures.routes)
       \/ pc = "relationships" /\ idx <= Len(fixtures.relationships)
    /\ pc' = "aborted"
    /\ lsession' = FALSE
    /\ UNCHANGED <<chatVars, up, store, fixtures, idx, sub, ldriver, runs, completed>>

\* The environment: the store becomes unreachable while a process runs, and
\* is brought back between processes.
StoreGoesDown ==
    /\ up
    /\ pc \in {"index", "products", "suppliers", "warehouses", "routes", "relationships"}
    /\ up' = FALSE
    /\ UNCHANGED <<chatVars, store, fixtures, pc, idx, sub, ldriver, lsession, runs, completed>>

StoreComesBack ==
    /\ ~up
    /\ pc = "aborted"
    /\ up' = TRUE
    /\ UNCHANGED <<chatVars, store, fixtures, pc, idx, sub, ldriver, lsession, runs, completed>>

NextLoad ==
    \/ StartIngestion
    \/ CreateVectorIndex
    \/ LoadProduct
    \/ BeginSuppliers
    \/ LoadSupplier
    \/ BeginWarehouses
    \/ LoadWarehouse
    \/ BeginRoutes
    \/ LoadRoute
    \/ BeginRelationships
    \/ CreateSupplies
    \/ CreateStoredAt
    \/ FinishLoad
    \/ CloseDriver
    \/ LoadRaises
    \/ StoreGoesDown
    \/ StoreComesBack

\* load_all_data as a function of the store: what a run that is not
\* interrupted leaves in the store.
LoadAll(s, fx) ==
    LET RECURSIVE Each(_, _, _)
        Each(Op(_, _), st, list) ==
            IF list = <<>> THEN st ELSE Each(Op, Op(st, Head(list)), Tail(list))
        Both(st, rel) == MergeStoredAt(MergeSupplies(st, rel), rel)
    IN  Each(Both,
          Each(ConnectWarehouses,
            Each(UpsertWarehouse,
              Each(UpsertSupplier,
                Each(UpsertProduct, EnsureIndex(s), fx.products),
                fx.suppliers),
              fx.warehouses),
            fx.routes),
          fx.relationships)

----------------------------------------------------------------------------
(* src/app.py: one script run per interaction of the chat session          *)

Questions == {"t1", "t3"}
Answer == "answer"

Turn(role, content) == [role |-> role, content |-> content]

\* The module body, lines 28 to 42: the configuration is read, genai is
\* configured with whatever api_key is, and the embedding model is loaded
\* inside a try whose handler only prints.
ModuleBody(loaded) ==
    /\ configured' = IF env.api_key THEN "key" ELSE "null"
    /\ modelLoaded' = loaded

NoCall == [context |-> <<>>, question |-> Null, api_key |-> "unset", outcome |-> "none"]

\* The script run ends: the names it bound are gone
EndOfRun ==
    /\ modelLoaded' = FALSE
    /\ question' = Null
    /\ context' = <<>>
    /\ response' = Null
    /\ rdriver' = "unbound"
    /\ connectAuth' = "none"
    /\ raised' = "none"
    /\ genCall' = NoCall

\* A script run without a prompt (the page is loaded or refreshed)
RunWithoutPrompt ==
    /\ cpc = "awaiting_input"
    /\ configured' = IF env.api_key THEN "key" ELSE "null"
    /\ UNCHANGED <<loadVars, messages, cpc, env, modelLoaded, asked, question, context,
                   response, rdriver, connectAuth, raised, genCall>>

\* st.chat_input returns a prompt: the user turn is appended and
\* get_relevant_context is entered.
SubmitQuestion ==
    /\ cpc = "awaiting_input"
    /\ asked < MaxQuestions
    /\ \E loaded \in BOOLEAN : ModuleBody(loaded)
    /\ \E q \in Questions :
          /\ question' = q
          /\ messages' = Append(messages, Turn("user", q))
    /\ asked' = asked + 1
    /\ cpc' = "retrieving"
    /\ UNCHANGED <<loadVars, env, context, response, rdriver, connectAuth, raised, genCall>>

\* GetDriver with the driver created before the try: a missing URI raises
\* out of get_relevant_context and ends the script run.
GetDriverOutsideTry ==
    /\ cpc = "retrieving"
    /\ IF env.uri
       THEN /\ rdriver' = "open"
            /\ cpc' = "querying"
            /\ UNCHANGED <<context, raised>>
       ELSE /\ rdriver' = "unbound"
            /\ raised' = "driver"
            /\ cpc' = "crashed"
            /\ UNCHANGED context
    /\ UNCHANGED <<loadVars, messages, env, modelLoaded, configured, asked, question,
                   response, connectAuth, genCall>>

\* get_relevant_context, line 49: GraphDatabase.driver raises on a missing
\* URI; the handler returns the error string and the finally clause finds no
\* driver among the locals.
GetDriver ==
    /\ cpc = "retrieving"
    /\ IF env.uri
       THEN /\ rdriver' = "open"
            /\ cpc' = "querying"
            /\ UNCHANGED <<context, raised>>
       ELSE /\ rdriver' = "unbound"
            /\ raised' = "driver"
            /\ context' = ErrorContext
            /\ cpc' = "generating"
    /\ UNCHANGED <<loadVars, messages, env, modelLoaded, configured, asked, question,
                   response, connectAuth, genCall>>

\* get_relevant_context, lines 51 to 96: the session, the encoding of the
\* question, the query, the formatting, the handler and the finally clause.
\* The encoding raises when embedding_model is unbound; the query raises when
\* the store does not answer or rejects the credentials.
RunQuery ==
    /\ cpc = "querying"
    /\ IF ~modelLoaded
       THEN /\ raised' = "encode"
            /\ context' = ErrorContext
            /\ UNCHANGED connectAuth
       ELSE /\ connectAuth' = IF env.username /\ env.password THEN "credentials" ELSE "null"
            /\ \E answers \in BOOLEAN :
                  IF answers /\ env.username /\ env.password
                  THEN /\ raised' = "none"
                       /\ \E result \in SimilarityQuery(store, Encode(question)) :
                             context' = RenderContext(result)
                  ELSE /\ raised' = "query"
                       /\ context' = ErrorContext
    /\ rdriver' = "closed"
    /\ cpc' = "generating"
    /\ UNCHANGED <<loadVars, messages, env, modelLoaded, configured, asked, question,
                   response, genCall>>

\* GenerateResponse without the except clause: a raising call ends the
\* script run before the assistant turn is appended.
GenerateResponseUncaught ==
    /\ cpc = "generating"
    /\ \E outcome \in {"text", "no text", "raises"} :
          /\ configured = "null" => outcome = "raises"
          /\ IF outcome = "raises"
             THEN /\ cpc' = "awaiting_input"
                  /\ EndOfRun
                  /\ UNCHANGED <<loadVars, messages, env, configured, asked>>
             ELSE /\ genCall' = [context |-> context, question |-> question,
                                api_key |-> configured, outcome |-> outcome]
                  /\ response' = IF outcome = "text" THEN Answer ELSE NoResponse
                  /\ cpc' = "responding"
                  /\ UNCHANGED <<loadVars, messages, env, modelLoaded, configured, asked,
                                 question, context, rdriver, connectAuth, raised>>

\* generate_gemini_response(context, prompt): the model's text, the fallback
\* when the response has none, or the error string when the call raises (as
\* it does when no API key was configured).
GenerateResponse ==
    /\ cpc = "generating"
    /\ \E outcome \in {"text", "no text", "raises"} :
          /\ configured = "null" => outcome = "raises"
          /\ genCall' = [context |-> context, question |-> question,
                         api_key |-> configured, outcome |-> outcome]
          /\ response' = CASE outcome = "text" -> Answer
                           [] outcome = "no text" -> NoResponse
                           [] OTHER -> ErrorResponse
    /\ cpc' = "responding"
    /\ UNCHANGED <<loadVars, messages, env, modelLoaded, configured, asked, question,
                   context, rdriver, connectAuth, raised>>

\* Line 163: the assistant turn is appended and the script run ends
AppendResponse ==
    /\ cpc = "responding"
    /\ messages' = Append(messages, Turn("assistant", response))
    /\ cpc' = "awaiting_input"
    /\ EndOfRun
    /\ UNCHANGED <<loadVars, env, configured, asked>>

NextChat ==
    \/ RunWithoutPrompt
    \/ SubmitQuestion
    \/ GetDriver
    \/ RunQuery
    \/ GenerateResponse
    \/ AppendResponse

----------------------------------------------------------------------------
(* Fixtures and store contents the ingestion is run on                     *)

Product(id, name, description) == [id |-> id, name |-> name, description |-> description]
Supplier(id, name, location) == [id |-> id, name |-> name, location |-> location]
Warehouse(id, name, location) == [id |-> id, name |-> name, location |-> location]
Route(from, to, distance) == [from |-> from, to |-> to, distance |-> distance]
Rel(s, p, w) == [supplier_id |-> s, product_id |-> p, warehouse_id |-> w]

ProductLists ==
    {<<>>,
     <<Product("p1", "Phone", "t1"), Product("p2", "Tablet", "t2")>>,
     <<Product("p1", "Phone", "t1"), Product("p1", "Phone 2", "t3")>>}

SupplierLists ==
    {<<>>,
     <<Supplier("s1", "Acme", "Lyon"), Supplier("s2", "Acme", "Oslo")>>}

WarehouseLists ==
    {<<>>,
     <<Warehouse("w1", "North", "Berlin")>>,
     <<Warehouse("w1", "North", "Berlin"), Warehouse("w2", "South", "Rome")>>}

RouteLists ==
    {<<>>,
     <<Route("w1", "w2", 7), Route("w1", "w2", 8)>>}

RelRecords == {Rel("s1", "p1", "w1"), Rel("s2", "p2", "w2"), Rel("s1", "p2", "w1")}

Fixtures ==
    [products : ProductLists, suppliers : SupplierLists, warehouses : WarehouseLists,
     routes : RouteLists, relationships : SeqsUpTo(RelRecords, MaxRels)]

\* What the store may hold before the first ingestion: nothing, or nodes and
\* edges written by something else, duplicates and parallel edges included.
PriorNodes ==
    {Node(1, "Product", "p1", "Old phone", "t2", Null, NullEmb),
     Node(2, "Product", "p1", "Old phone", "t2", Null, Encode("t2")),
     Node(3, "Supplier", "s1", "Acme", Null, "Lyon", NullEmb)}

PriorEdges ==
    {Edge("SUPPLIES", 3, 1, 1, NoDist), Edge("SUPPLIES", 3, 1, 2, NoDist)}

PriorStores ==
    {[nodes |-> ns, edges |-> es, index |-> FALSE] :
        ns \in SUBSET PriorNodes,
        es \in SUBSET PriorEdges} 

WellFormed(s) ==
    \A e \in s.edges : \E a, b \in s.nodes : a.nid = e.src /\ b.nid = e.dst

AllSet == [uri |-> TRUE, username |-> TRUE, password |-> TRUE, api_key |-> TRUE]
Environments == [uri : BOOLEAN, username : BOOLEAN, password : BOOLEAN, api_key : BOOLEAN]

\* The chat session before its first script run
SessionStart ==
    /\ messages = <<>>
    /\ cpc = "awaiting_input"
    /\ modelLoaded = FALSE
    /\ configured = "unset"
    /\ asked = 0
    /\ question = Null
    /\ context = <<>>
    /\ response = Null
    /\ rdriver = "unbound"
    /\ connectAuth = "none"
    /\ raised = "none"
    /\ genCall = NoCall

InitLoad ==
    /\ fixtures \in Fixtures
    /\ store \in {s \in PriorStores : WellFormed(s)}
    /\ pc = "idle"
    /\ idx = 1
    /\ sub = 1
    /\ ldriver = "none"
    /\ lsession = FALSE
    /\ runs = 0
    /\ completed = 0
    /\ up = TRUE
    /\ env = AllSet
    /\ SessionStart

SpecLoad == InitLoad /\ [][NextLoad]_vars

\* The stores the chat runs on: an ingestion of fixtures into a store that
\* was empty or held a product nobody embedded.
ProductIds == <<"p1", "p2", "p3", "p4", "p5">>
ProductNames == <<"Phone", "Phone", "Tablet", "Tablet", "Phone">>

Descriptions == {"t1", "t2"}

ChatProductLists ==
    UNION {{[i \in 1..k |-> Product(ProductIds[i], ProductNames[i], d[i])] :
                d \in [1..k -> Descriptions]} : k \in 0..MaxProducts}

ChatLinks ==
    {[suppliers |-> <<>>, warehouses |-> <<>>, relationships |-> <<>>],
     [suppliers |-> <<Supplier("s1", "Acme", "Lyon")>>,
      warehouses |-> <<Warehouse("w1", "North", "Berlin")>>,
      relationships |-> <<Rel("s1", "p1", "w1")>>],
     [suppliers |-> <<Supplier("s1", "Acme", "Lyon"), Supplier("s2", "Acme", "Oslo")>>,
      warehouses |-> <<Warehouse("w1", "North", "Berlin")>>,
      relationships |-> <<Rel("s1", "p1", "w1"), Rel("s2", "p1", "w1")>>],
     [suppliers |-> <<Supplier("s1", "Acme", "Lyon"), Supplier("s2", "", "Oslo")>>,
      warehouses |-> <<Warehouse("w1", "North", "Berlin"), Warehouse("w2", "South", "Rome")>>,
      relationships |-> <<Rel("s1", "p1", "w1"), Rel("s2", "p1", "w2")>>],
     [suppliers |-> <<Supplier("s1", "Acme", "Lyon"), Supplier("s2", "Bolt", "Oslo")>>,
      warehouses |-> <<Warehouse("w1", "North", "Berlin")>>,
      relationships |-> <<Rel("s1", "p1", "w1"), Rel("s2", "p2", "w1"), Rel("s2", "p3", "w2")>>],
     [suppliers |-> <<Supplier("s1", "Acme", "Lyon"), Supplier("s2", "Bolt", "Oslo")>>,
      warehouses |-> <<Warehouse("w1", "North", "Berlin")>>,
      relationships |-> <<Rel("s1", "p1", "w1"), Rel("s2", "p1", "w1")>>]}

ChatFixtures ==
    {[products |-> ps, suppliers |-> l.suppliers, warehouses |-> l.warehouses,
      routes |-> <<>>, relationships |-> l.relationships] :
        ps \in ChatProductLists, l \in ChatLinks}

ChatPriorStores ==
    {EmptyStore,
     [EmptyStore EXCEPT !.nodes = {Node(1, "Product", "p0", "Old phone", "t1", Null, NullEmb)}]}

\* The chat starts on a store an ingestion has filled.  Every combination
\* of set and unset environment variables is tried on the stores of at most
\* one product, the complete environment on all of them.
InitChat ==
    /\ fixtures \in ChatFixtures
    /\ \E prior \in ChatPriorStores : store = LoadAll(prior, fixtures)
    /\ env \in Environments
    /\ env # AllSet => Len(fixtures.products) <= 1
    /\ pc = "exited"
    /\ idx = 1
    /\ sub = 1
    /\ ldriver = "closed"
    /\ lsession = FALSE
    /\ runs = 1
    /\ completed = 1
    /\ up = TRUE
    /\ SessionStart

SpecChat == InitChat /\ [][NextChat]_vars

----------------------------------------------------------------------------
(* Properties of the ingestion                                             *)

HasNode(s, label, id) == \E n \in s.nodes : n.label = label /\ n.id = id

NodeAt(s, nid) == CHOOSE n \in s.nodes : n.nid = nid

Running == {"index", "products", "suppliers", "warehouses", "routes", "relationships"}

\* C1: once load_all_data has run to completion on the fixtures, a further
\* run on the same fixtures changes none of the six counts (Product, Supplier
\* and Warehouse nodes; SUPPLIES, STORED_AT and CONNECTED_TO edges), whatever
\* the store held before the first run.
C1_Idempotent == [][completed >= 1 => Counts(store') = Counts(store)]_vars

C1_Witness ==
    /\ completed = 2
    /\ pc = "exited"
    /\ EdgesOf(store, "SUPPLIES") # {}
    /\ EdgesOf(store, "STORED_AT") # {}
    /\ EdgesOf(store, "CONNECTED_TO") # {}
    /\ Cardinality(NodesOf(store, "Product")) >= 2

\* The relationship record create_relationships is working on
AtRel == pc = "relationships" /\ idx <= Len(fixtures.relationships)

MissingAny(s, rel) ==
    \/ ~HasNode(s, "Supplier", rel.supplier_id)
    \/ ~HasNode(s, "Product", rel.product_id)
    \/ ~HasNode(s, "Warehouse", rel.warehouse_id)

\* C2 as claimed: a relationship record with at least one of its three ids
\* absent from the store creates no edge at all.
C2_Original ==
    [][(AtRel /\ MissingAny(store, fixtures.relationships[idx]))
          => store'.edges = store.edges]_vars

\* C2 as amended: a query of create_relationships never raises while the
\* store answers and only ever creates an edge between nodes that carry the
\* ids of its record: the SUPPLIES edge needs the supplier and the product,
\* the STORED_AT edge needs the product and the warehouse, and each is there
\* after its query when both its endpoints are.  A record whose product is
\* absent, or whose supplier and warehouse are both absent, creates nothing.
C2_PerEdge ==
    [][(AtRel /\ up /\ up') =>
        LET rel == fixtures.relationships[idx]
            new == store'.edges \ store.edges
            hasS == HasNode(store, "Supplier", rel.supplier_id)
            hasP == HasNode(store, "Product", rel.product_id)
            hasW == HasNode(store, "Warehouse", rel.warehouse_id)
        IN  /\ pc' = "relationships"
            /\ store'.nodes = store.nodes
            /\ \A e \in new :
                  \/ /\ e.type = "SUPPLIES" /\ sub = 1
                     /\ NodeAt(store, e.src).label = "Supplier"
                     /\ NodeAt(store, e.src).id = rel.supplier_id
                     /\ NodeAt(store, e.dst).label = "Product"
                     /\ NodeAt(store, e.dst).id = rel.product_id
                  \/ /\ e.type = "STORED_AT" /\ sub = 2
                     /\ NodeAt(store, e.src).label = "Product"
                     /\ NodeAt(store, e.src).id = rel.product_id
                     /\ NodeAt(store, e.dst).label = "Warehouse"
                     /\ NodeAt(store, e.dst).id = rel.warehouse_id
            /\ (sub = 1 /\ hasS /\ hasP) =>
                  \E e \in EdgesOf(store', "SUPPLIES") :
                      /\ NodeAt(store, e.src).id = rel.supplier_id
                      /\ NodeAt(store, e.dst).id = rel.product_id
            /\ (sub = 2 /\ hasP /\ hasW) =>
                  \E e \in EdgesOf(store', "STORED_AT") :
                      /\ NodeAt(store, e.src).id = rel.product_id
                      /\ NodeAt(store, e.dst).id = rel.warehouse_id
            /\ (~hasP \/ (~hasS /\ ~hasW)) => new = {}]_vars

\* A record whose warehouse is absent has been processed and has its SUPPLIES edge
C2_Witness ==
    /\ pc = "relationships"
    /\ idx > 1
    /\ LET rel == fixtures.relationships[idx - 1]
       IN  /\ ~HasNode(store, "Warehouse", rel.warehouse_id)
           /\ \E e \in EdgesOf(store, "SUPPLIES") :
                 /\ NodeAt(store, e.src).id = rel.supplier_id
                 /\ NodeAt(store, e.dst).id = rel.product_id
           /\ EdgesOf(store, "STORED_AT") = {}

\* C7 as claimed, for the ingestion run: when the process has ended, on
\* either path, the driver it opened is closed and no session is open.
C7_Released == pc \in {"exited", "aborted"} => (ldriver = "closed" /\ ~lsession)

PhaseSteps ==
    {<<"idle", "index">>, <<"exited", "index">>, <<"aborted", "index">>,
     <<"index", "products">>, <<"products", "suppliers">>,
     <<"suppliers", "warehouses">>, <<"warehouses", "routes">>,
     <<"routes", "relationships">>, <<"relationships", "loaded">>,
     <<"loaded", "exited">>} \cup {<<q, "aborted">> : q \in Running}

NodesLoaded ==
    /\ store.index
    /\ \A i \in 1..Len(fixtures.products) :
          \E n \in store.nodes : /\ n.label = "Product"
                                 /\ n.id = fixtures.products[i].id
                                 /\ n.embedding # NullEmb
    /\ \A i \in 1..Len(fixtures.suppliers) : HasNode(store, "Supplier", fixtures.suppliers[i].id)
    /\ \A i \in 1..Len(fixtures.warehouses) : HasNode(store, "Warehouse", fixtures.warehouses[i].id)

InFixture(list, id) == \E i \in 1..Len(list) : list[i].id = id

Linked(s, type, la, x, lb, y) ==
    \E e \in EdgesOf(s, type) :
        /\ NodeAt(s, e.src).label = la /\ NodeAt(s, e.src).id = x
        /\ NodeAt(s, e.dst).label = lb /\ NodeAt(s, e.dst).id = y

EdgesLoaded ==
    /\ \A i \in 1..Len(fixtures.routes) :
          LET r == fixtures.routes[i]
          IN  (InFixture(fixtures.warehouses, r.from) /\ InFixture(fixtures.warehouses, r.to))
                  => Linked(store, "CONNECTED_TO", "Warehouse", r.from, "Warehouse", r.to)
    /\ \A i \in 1..Len(fixtures.relationships) :
          LET r == fixtures.relationships[i]
          IN  (/\ InFixture(fixtures.suppliers, r.supplier_id)
               /\ InFixture(fixtures.products, r.product_id)
               /\ InFixture(fixtures.warehouses, r.warehouse_id))
                  => /\ Linked(store, "SUPPLIES", "Supplier", r.supplier_id,
                                "Product", r.product_id)
                     /\ Linked(store, "STORED_AT", "Product", r.product_id,
                                "Warehouse", r.warehouse_id)

\* C9: the ingestion moves through its phases in the one order index,
\* products, suppliers, warehouses, routes, relationships; a step changes the
\* edges only in the last two phases and only when the index exists and every
\* node record of the fixtures is in the store; and when load_all_data has
\* returned, every route and relationship record whose ids all appear in the
\* node fixtures has its edges.
C9_PhaseOrder ==
    /\ [][pc' # pc => <<pc, pc'>> \in PhaseSteps]_vars
    /\ [][store'.edges # store.edges
            => (pc \in {"routes", "relationships"} /\ NodesLoaded)]_vars
    /\ [][store'.nodes # store.nodes
            => pc \in {"products", "suppliers", "warehouses"}]_vars
    /\ [](pc \in {"routes", "relationships", "loaded"} => NodesLoaded)
    /\ [](pc = "loaded" => EdgesLoaded)

C9_Witness ==
    /\ pc = "loaded"
    /\ completed = 1
    /\ Len(fixtures.routes) > 0
    /\ Len(fixtures.relationships) = MaxRels
    /\ \A i \in 1..Len(fixtures.relationships) :
          ~MissingAny(store, fixtures.relationships[i])
    /\ Cardinality(EdgesOf(store, "STORED_AT")) >= 2
    /\ EdgesOf(store, "CONNECTED_TO") # {}

----------------------------------------------------------------------------
(* Properties of the chat application                                      *)

\* get_relevant_context has returned in this script run
Retrieved == cpc \in {"generating", "responding"}

Separator == <<"---">>

\* The blocks of a context: its lines cut after each separator line
RECURSIVE Blocks(_)
Blocks(lines) ==
    IF lines = <<>> \/ ~\E i \in 1..Len(lines) : lines[i] = Separator THEN <<>>
    ELSE LET cut == CHOOSE i \in 1..Len(lines) :
                       lines[i] = Separator /\ \A j \in 1..(i - 1) : lines[j] # Separator
         IN  <<SubSeq(lines, 1, cut)>> \o Blocks(SubSeq(lines, cut + 1, Len(lines)))

ContextBlocks == IF context \in {NoContext, ErrorContext} THEN <<>> ELSE Blocks(context)

BlockKey(b) == <<b[1][2], b[2][2]>>

Embedded == {n \in store.nodes : n.label = "Product" /\ n.embedding # NullEmb}

RECURSIVE Dot(_, _)
Dot(a, b) == IF a = <<>> THEN 0 ELSE Head(a) * Head(b) + Dot(Tail(a), Tail(b))

Score(n) == Dot(n.embedding, Encode(question))

Members(b) == {n \in Embedded : <<n.name, n.description>> = BlockKey(b)}

BlockScore(b) == Max({Score(n) : n \in Members(b)})

\* C3 as claimed: when the similarity query has answered, the context has
\* at most three blocks; every block is that of a product with an embedding;
\* no product with an embedding that is left out scores higher than a block;
\* as many products are returned as the limit and the store allow; and the
\* blocks are in descending order of dot-product score.
C3_TopThree ==
    (Retrieved /\ raised = "none") =>
        LET bs == ContextBlocks
            shown == {n \in Embedded : \E i \in 1..Len(bs) : n \in Members(bs[i])}
        IN  /\ Len(bs) <= 3
            /\ \A i \in 1..Len(bs) :
                  /\ Len(bs[i]) >= 3
                  /\ bs[i][1][1] = "Product: "
                  /\ Members(bs[i]) # {}
            /\ \A n \in Embedded \ shown : \A i \in 1..Len(bs) : Score(n) <= BlockScore(bs[i])
            /\ Cardinality(shown) >= Min(3, Cardinality(Embedded))
            /\ \A i, j \in 1..Len(bs) : i < j => BlockScore(bs[i]) >= BlockScore(bs[j])

\* What holds of the ranking whatever order the database gives the result
\* rows in: at most three blocks, each that of a product with an embedding,
\* none of the products left out scoring higher, as many as the limit and
\* the store allow.
TopThreeInSomeOrder ==
    (Retrieved /\ raised = "none") =>
        LET bs == ContextBlocks
            shown == {n \in Embedded : \E i \in 1..Len(bs) : n \in Members(bs[i])}
        IN  /\ Len(bs) <= 3
            /\ \A i \in 1..Len(bs) :
                  /\ Len(bs[i]) >= 3
                  /\ bs[i][1][1] = "Product: "
                  /\ Members(bs[i]) # {}
            /\ \A n \in Embedded \ shown : \A i \in 1..Len(bs) : Score(n) <= BlockScore(bs[i])
            /\ Cardinality(shown) >= Min(3, Cardinality(Embedded))

Alternating(ms) ==
    \A i \in 1..Len(ms) : ms[i].role = IF i % 2 = 1 THEN "user" ELSE "assistant"

\* C4: between script runs the history holds two turns per question asked,
\* during a run the user turn of the question in progress in addition; the
\* roles alternate from user; a step only ever appends to the history; the
\* generation is called only after get_relevant_context has returned and
\* closed what it opened; and the run ends by appending the assistant turn
\* right after the question's user turn, with the error string as its
\* content when the generation raised.
C4_History ==
    /\ [](Alternating(messages))
    /\ [](Len(messages) = IF cpc = "awaiting_input" THEN 2 * asked ELSE 2 * asked - 1)
    /\ [][/\ Len(messages') >= Len(messages)
          /\ SubSeq(messages', 1, Len(messages)) = messages]_vars
    /\ [][genCall' # genCall /\ genCall' # NoCall
            => /\ context # <<>>
               /\ rdriver # "open"
               /\ genCall'.context = context
               /\ genCall'.question = question]_vars
    /\ [][cpc # "awaiting_input" /\ cpc' = "awaiting_input"
            => /\ genCall # NoCall
               /\ messages[Len(messages)] = Turn("user", question)
               /\ messages' = Append(messages, Turn("assistant", response))
               /\ genCall.outcome = "raises" => response = ErrorResponse]_vars

C4_Witness ==
    /\ cpc = "awaiting_input"
    /\ asked = 2
    /\ Len(messages) = 4
    /\ messages[2] = Turn("assistant", ErrorResponse)
    /\ messages[4] = Turn("assistant", Answer)

\* C5: when no product of the store has an embedding and nothing raised,
\* get_relevant_context returns "No relevant context found.", and the
\* generation is called in that script run with that string as its context.
C5_EmptyStore ==
    (Retrieved /\ raised = "none" /\ Embedded = {}) =>
        /\ context = NoContext
        /\ cpc = "responding" =>
              /\ genCall.context = NoContext
              /\ genCall.question = question
              /\ genCall.outcome \in {"text", "no text", "raises"}

C5_Witness ==
    /\ cpc = "responding"
    /\ raised = "none"
    /\ Embedded = {}
    /\ store.nodes # {}
    /\ genCall.context = NoContext
    /\ response = Answer

\* C6: get_relevant_context never raises to the script: whichever of its
\* steps raised, it returned "Error retrieving context." and the script run
\* went on to the generation.
C6_NeverRaises ==
    /\ cpc # "crashed"
    /\ Retrieved =>
          /\ context # <<>>
          /\ raised # "none" => context = ErrorContext
          /\ ~env.uri => raised = "driver"
          /\ (env.uri /\ ~modelLoaded) => raised = "encode"
          /\ (env.uri /\ modelLoaded /\ ~(env.username /\ env.password)) => raised = "query"

C6_Witness ==
    /\ cpc = "responding"
    /\ raised = "driver"
    /\ ~modelLoaded
    /\ context = ErrorContext
    /\ asked = 2
    /\ messages[2].content = Answer

\* C8 as claimed: genai is never configured or called with a null API key
\* and no connection to the store is made with null credentials.
C8_NoNullAuth ==
    /\ configured # "null"
    /\ genCall.api_key # "null"
    /\ connectAuth # "null"

LinesOf(b, text) == {i \in 1..Len(b) : b[i][1] = text}

\* The lists of products the query may rank: as many distinct products with
\* an embedding as the limit and the store allow, in descending score, none
\* of the products left out scoring higher than one of the list.
Rankings ==
    LET k == Min(TopK, Cardinality(Embedded))
    IN  {top \in [1..k -> Embedded] :
            /\ \A i, j \in 1..k : i < j => (top[i] # top[j] /\ Score(top[i]) >= Score(top[j]))
            /\ \A n \in Embedded \ {top[i] : i \in 1..k} :
                  \A i \in 1..k : Score(n) <= Score(top[i])}

\* C10 as claimed: for one of the lists the query may rank, one block per
\* returned product, in ranked order, with its Product and Description
\* lines, one "Supplied by" line per supplier linked to the product, one
\* "Stored at" line per warehouse linked to it, and the separator.
C10_Original ==
    (Retrieved /\ raised = "none") =>
        \E top \in Rankings :
        LET bs == ContextBlocks
        IN  /\ Len(bs) = Len(top)
            /\ \A i \in 1..Len(bs) :
                  /\ bs[i][1] = <<"Product: ", top[i].name>>
                  /\ bs[i][2] = <<"Description: ", top[i].description>>
                  /\ Cardinality(LinesOf(bs[i], "Supplied by: "))
                        = Cardinality(SuppliersOf(store, top[i]))
                  /\ Cardinality(LinesOf(bs[i], "Stored at: "))
                        = Cardinality(WarehousesOf(store, top[i]))
                  /\ bs[i][Len(bs[i])] = Separator

\* What holds of the rendering for one of the lists the query may rank: one
\* block per distinct (name, description) of the returned products, in any
\* order; in a block, after the Product and Description lines, one "Supplied
\* by" line per distinct non-empty name among the suppliers linked to a
\* returned product of the block, then one "Stored at" line per distinct
\* (name, location) with a non-empty name among the linked warehouses, then
\* the separator.
BlocksOfDistinctNames ==
    (Retrieved /\ raised = "none") =>
        \E top \in Rankings :
        LET bs == ContextBlocks
            keys == {<<top[i].name, top[i].description>> : i \in 1..Len(top)}
        IN  /\ Len(bs) = Cardinality(keys)
            /\ {BlockKey(bs[g]) : g \in 1..Len(bs)} = keys
            /\ \A g \in 1..Len(bs) :
                  LET b == bs[g]
                      ps == {top[i] : i \in {j \in 1..Len(top) :
                                <<top[j].name, top[j].description>> = BlockKey(b)}}
                      names == {n.name : n \in UNION {SuppliersOf(store, q) : q \in ps}}
                                   \ {Null, ""}
                      places == {<<n.name, n.location>> :
                                    n \in {m \in UNION {WarehousesOf(store, q) : q \in ps} :
                                              m.name \notin {Null, ""}}}
                      ns == Cardinality(names)
                      nw == Cardinality(places)
                  IN  /\ Len(b) = 3 + ns + nw
                      /\ {b[i] : i \in 3..(2 + ns)} = {<<"Supplied by: ", n>> : n \in names}
                      /\ {b[i] : i \in (3 + ns)..(2 + ns + nw)}
                            = {<<"Stored at: ", w[1], " in ", w[2]>> : w \in places}
                      /\ b[Len(b)] = Separator

====
